---- MODULE Spec2Model ----
(***************************************************************************)
(* Model of the Concordium auction contract of src/src/lib.rs.             *)
(*                                                                         *)
(* The contract instance owns one State record and a CCD balance.  Every   *)
(* entrypoint is one atomic call made by the chain: the attached amount    *)
(* of a payable call is added to the balance before the body runs, and a   *)
(* rejected (Err) or aborted (trap) call is rolled back as a whole.        *)
(* The slot time, the sender and the attached amount are inputs of each    *)
(* call, read from ctx; the model draws them from small sets.              *)
(***************************************************************************)
EXTENDS Integers, Sequences, FiniteSets, TLC

\* ---- bounds of the model ------------------------------------------------
MaxAmount == 3
MaxTime == 1

Accounts == {"a1", "a2"}
Contracts == {"c1"}
Items == {"Starry night", "Sunflowers"}
Amounts == 0..MaxAmount
Times == 0..MaxTime

\* Address::Account(_) | Address::Contract(_) of concordium_std
Account(a) == <<"Account", a>>
Contract(c) == <<"Contract", c>>
Addresses == {Account(a) : a \in Accounts} \cup {Contract(c) : c \in Contracts}

\* Option<AccountAddress>
None == <<>>
Some(a) == <<a>>

\* enum AuctionState
Continue == <<"Continue">>
Sold(a) == <<"Sold", a>>

VARIABLES
    state,          \* the State record held by the instance
    balance,        \* host.self_balance() as seen between calls
    owner,          \* ctx.owner(): the account that created the instance
    last,           \* the last call: its inputs, its result, its transfers, the state before it
    lastAccepted,   \* history: amount of the last successful bid (0 if none)
    finalizedOk,    \* history: some finalize call has returned Ok
    lastBidder,     \* history: sender of the last successful bid (None if none)
    initParam,      \* history: the InitParameter the instance was created with
    net,            \* history: per principal, its accepted bids minus the refunds sent to it
    paidOut,        \* history: total amount transferred by finalize
    payouts         \* history: number of transfers scheduled by finalize

vars == <<state, balance, owner, last, lastAccepted, finalizedOk,
          lastBidder, initParam, net, paidOut, payouts>>

\* ---- fn auction_init ----------------------------------------------------
\* variant: the end of the auction is not taken from the parameter
auction_init_endZero(param) ==
    [auction_state |-> Continue,
     highest_bidder |-> None,
     item |-> param.item,
     end |-> 0]

auction_init(param) ==
    [auction_state |-> Continue,
     highest_bidder |-> None,
     item |-> param.item,
     end |-> param.end]

\* ---- the host's transfer ------------------------------------------------
\* host.invoke_transfer(&to, amount): fails with AmountTooLarge when the
\* instance holds less than amount, with MissingAccount when the host
\* cannot credit the receiver (input host_ok = FALSE).
invoke_transfer(to, amount, self_balance, host_ok) ==
    IF amount > self_balance THEN "AmountTooLarge"
    ELSE IF ~host_ok THEN "MissingAccount"
    ELSE "Ok"

\* ---- fn auction_bid -----------------------------------------------------
\* variant: the phase guard is missing
bid_state_ok_always(st) == TRUE

\* ensure_eq!(auction_state, Continue, AuctionFinalizedButBidded)
bid_state_ok(st) == st.auction_state = Continue

\* variant: the slot time is not checked
bid_time_ok_always(slot_time, end) == TRUE

\* variant: the bid window is closed at the end instant itself
bid_time_ok_strict(slot_time, end) == slot_time < end

\* ensure!(slot_time <= end, BidTooLate)
bid_time_ok(slot_time, end) == slot_time <= end

\* variant: the sender is not matched, contracts may bid
bid_sender_ok_any(sender) == TRUE

\* match ctx.sender() { Contract(_) => bail!(OnlyAccount), Account(a) => a }
bid_sender_ok(sender) == sender[1] = "Account"

\* variant: ties are accepted
bid_amount_ok_ties(amount, before) == amount >= before

\* ensure!(amount > balance_before_latest_bid, BidMore)
bid_amount_ok(amount, balance_before_latest_bid) == amount > balance_before_latest_bid

\* let balance_before_latest_bid = balance - amount
balance_before_latest_bid(self_balance, amount) == self_balance - amount

\* variant: the sender is matched before the slot time is read
bid_guards_senderFirst(st, sender, slot_time, amount, self_balance) ==
    IF st.auction_state # Continue THEN "AuctionFinalizedButBidded"
    ELSE IF sender[1] # "Account" THEN "OnlyAccount"
    ELSE IF ~(slot_time <= st.end) THEN "BidTooLate"
    ELSE IF ~(amount > self_balance - amount) THEN "BidMore"
    ELSE "Ok"

\* The guards of auction_bid in the order the body runs them; "Ok" when all pass.
bid_guards(st, sender, slot_time, amount, self_balance) ==
    IF ~bid_state_ok(st) THEN "AuctionFinalizedButBidded"
    ELSE IF ~bid_time_ok(slot_time, st.end) THEN "BidTooLate"
    ELSE IF ~bid_sender_ok(sender) THEN "OnlyAccount"
    ELSE IF ~bid_amount_ok(amount, balance_before_latest_bid(self_balance, amount))
         THEN "BidMore"
    ELSE "Ok"

\* variant: the refund goes to the new bidder
bid_refund_receiver_sender(old_bidder, sender_address) == sender_address

\* variant: the refund is the amount of the new bid
bid_refund_amount_newBid(before, amount) == amount

\* variant: the refund is the whole balance (balance, not balance_before_latest_bid)
bid_refund_amount_wholeBalance(before, amount) == before + amount

\* host.invoke_transfer(&account_address, balance_before_latest_bid): the
\* receiver is the bidder that replace() returned, the amount the old balance
bid_refund_receiver(old_bidder, sender_address) == old_bidder

bid_refund_amount(before, amount) == before

\* variant: an accepted bid also moves the end of the auction
bid_new_state_extendsEnd(st, sender_address) ==
    [st EXCEPT !.highest_bidder = Some(sender_address), !.end = st.end + 1]

\* host.state_mut().highest_bidder.replace(sender_address)
bid_new_state(st, sender_address) ==
    [st EXCEPT !.highest_bidder = Some(sender_address)]

\* The body of auction_bid run on the instance state st with self_balance
\* already including the attached amount.  The result carries the state
\* and balance as the body left them (before the host commits or rolls back).
auction_bid(st, sender, slot_time, amount, self_balance, host_ok) ==
    LET g == bid_guards(st, sender, slot_time, amount, self_balance)
        old == st.highest_bidder
        st1 == bid_new_state(st, sender[2])
    IN  IF g # "Ok"
        THEN [res |-> g, state |-> st, balance |-> self_balance, transfers |-> <<>>]
        ELSE IF old # None
        THEN LET to == bid_refund_receiver(old[1], sender[2])
                 amt == bid_refund_amount(balance_before_latest_bid(self_balance, amount),
                                          amount)
             IN  IF invoke_transfer(to, amt, self_balance, host_ok) = "Ok"
                 THEN [res |-> "Ok", state |-> st1, balance |-> self_balance - amt,
                       transfers |-> <<[to |-> to, amount |-> amt]>>]
                 ELSE [res |-> "Abort", state |-> st1, balance |-> self_balance,
                       transfers |-> <<>>]
        ELSE [res |-> "Ok", state |-> st1, balance |-> self_balance, transfers |-> <<>>]

\* ---- fn auction_finalize ------------------------------------------------
\* variant: the phase guard is missing
finalize_state_ok_always(st) == TRUE

\* ensure_eq!(auction_state, Continue, AuctionAlreadyFinalized)
finalize_state_ok(st) == st.auction_state = Continue

\* ensure!(slot_time > end, AuctionStillActive)
finalize_time_ok(slot_time, end) == slot_time > end

finalize_guards(st, slot_time) ==
    IF ~finalize_state_ok(st) THEN "AuctionAlreadyFinalized"
    ELSE IF ~finalize_time_ok(slot_time, st.end) THEN "AuctionStillActive"
    ELSE "Ok"

\* variant: the payout goes to the sender of finalize
finalize_receiver_sender(ctx_owner, sender, winner) == sender[2]

\* variant: the payout goes to the winner
finalize_receiver_winner(ctx_owner, sender, winner) == winner

\* receiver of the payout: let owner = ctx.owner()
finalize_receiver(ctx_owner, sender, winner) == ctx_owner

\* amount of the payout: let balance = host.self_balance()
finalize_amount(self_balance) == self_balance

\* variant: the auction is marked as sold to the owner of the instance
finalize_new_state_owner(st, account_address, ctx_owner) ==
    [st EXCEPT !.auction_state = Sold(ctx_owner)]

\* host.state_mut().auction_state = AuctionState::Sold(account_address)
finalize_new_state(st, account_address, ctx_owner) ==
    [st EXCEPT !.auction_state = Sold(account_address)]

\* variant: the auction with no bid is closed as sold to the owner
finalize_no_bidder_closes(st, ctx_owner) == [st EXCEPT !.auction_state = Sold(ctx_owner)]

\* the state finalize leaves when highest_bidder is None: untouched, Ok(())
finalize_no_bidder(st, ctx_owner) == st

auction_finalize(st, ctx_owner, sender, slot_time, self_balance, host_ok) ==
    LET g == finalize_guards(st, slot_time)
        hb == st.highest_bidder
    IN  IF g # "Ok"
        THEN [res |-> g, state |-> st, balance |-> self_balance, transfers |-> <<>>]
        ELSE IF hb # None
        THEN LET st1 == finalize_new_state(st, hb[1], ctx_owner)
                 to == finalize_receiver(ctx_owner, sender, hb[1])
                 amt == finalize_amount(self_balance)
             IN  IF invoke_transfer(to, amt, self_balance, host_ok) = "Ok"
                 THEN [res |-> "Ok", state |-> st1, balance |-> self_balance - amt,
                       transfers |-> <<[to |-> to, amount |-> amt]>>]
                 ELSE [res |-> "Abort", state |-> st1, balance |-> self_balance,
                       transfers |-> <<>>]
        ELSE [res |-> "Ok", state |-> finalize_no_bidder(st, ctx_owner),
              balance |-> self_balance, transfers |-> <<>>]

\* ---- fn view, fn view_highest_bid --------------------------------------
\* variant: the view reports the auction as still open
view_alwaysContinue(st) == [st EXCEPT !.auction_state = Continue]

\* Ok(host.state())
view(st) == st

\* variant: the amount reported is zero
view_highest_bid_zero(self_balance) == 0

\* Ok(host.self_balance())
view_highest_bid(self_balance) == self_balance

\* variant: a rejected call keeps what the body did (attached amount included)
receive_outcome_keepOnErr(pre_state, pre_balance, out) ==
    IF out.res = "Abort"
    THEN [res |-> out.res, state |-> pre_state, balance |-> pre_balance, transfers |-> <<>>]
    ELSE out

\* variant: a failed transfer does not stop the call (its result is dropped)
receive_outcome_keepOnAbort(pre_state, pre_balance, out) ==
    IF out.res \in {"Ok", "Abort"}
    THEN out
    ELSE [res |-> out.res, state |-> pre_state, balance |-> pre_balance, transfers |-> <<>>]

\* ---- the host around a receive call -------------------------------------
\* Result<(), E>: Ok commits what the body did; Err rejects the call and a
\* trap (unwrap_abort) aborts it: the state, the balance (the attached
\* amount goes back to the sender) and the transfers are those before it.
receive_outcome(pre_state, pre_balance, out) ==
    IF out.res = "Ok"
    THEN out
    ELSE [res |-> out.res, state |-> pre_state, balance |-> pre_balance, transfers |-> <<>>]

\* ---- state machine ------------------------------------------------------
\* what the instance held when the call arrived (kept in last for the properties)
Pre == [state |-> state, balance |-> balance,
        lastAccepted |-> lastAccepted, finalizedOk |-> finalizedOk]

Principals == Accounts \cup Contracts

\* net after the transfers of a call have been received
RECURSIVE Credit(_, _)
Credit(n, transfers) ==
    IF transfers = <<>> THEN n
    ELSE LET t == Head(transfers)
         IN  Credit([n EXCEPT ![t.to] = @ - t.amount], Tail(transfers))

RECURSIVE Total(_)
Total(transfers) ==
    IF transfers = <<>> THEN 0 ELSE Head(transfers).amount + Total(Tail(transfers))

\* the instance is created by auction_init with a zero balance (init is not payable)
Init ==
    /\ owner \in Accounts
    /\ initParam \in [item : Items, end : Times]
    /\ state = auction_init(initParam)
    /\ balance = 0
    /\ last = [op |-> "init", sender |-> Account(owner), slot_time |-> 0, amount |-> 0,
               host_ok |-> TRUE, res |-> "Ok", transfers |-> <<>>, ret |-> <<>>,
               pre |-> [state |-> state, balance |-> 0,
                        lastAccepted |-> 0, finalizedOk |-> FALSE]]
    /\ lastAccepted = 0
    /\ finalizedOk = FALSE
    /\ lastBidder = None
    /\ net = [p \in Principals |-> 0]
    /\ paidOut = 0
    /\ payouts = 0

Bid(sender, slot_time, amount, host_ok) ==
    LET out == receive_outcome(state, balance,
                   auction_bid(state, sender, slot_time, amount, balance + amount, host_ok))
    IN  /\ state' = out.state
        /\ balance' = out.balance
        /\ last' = [op |-> "bid", sender |-> sender, slot_time |-> slot_time,
                    amount |-> amount, host_ok |-> host_ok, res |-> out.res,
                    transfers |-> out.transfers, ret |-> <<>>,
                    pre |-> Pre]
        /\ lastAccepted' = IF out.res = "Ok" THEN amount ELSE lastAccepted
        /\ lastBidder' = IF out.res = "Ok" THEN Some(sender[2]) ELSE lastBidder
        /\ net' = IF out.res = "Ok"
                  THEN Credit([net EXCEPT ![sender[2]] = @ + amount], out.transfers)
                  ELSE net
        /\ UNCHANGED <<owner, finalizedOk, initParam, paidOut, payouts>>

Finalize(sender, slot_time, host_ok) ==
    LET out == receive_outcome(state, balance,
                   auction_finalize(state, owner, sender, slot_time, balance, host_ok))
    IN  /\ state' = out.state
        /\ balance' = out.balance
        /\ last' = [op |-> "finalize", sender |-> sender, slot_time |-> slot_time,
                    amount |-> 0, host_ok |-> host_ok, res |-> out.res,
                    transfers |-> out.transfers, ret |-> <<>>,
                    pre |-> Pre]
        /\ finalizedOk' = (finalizedOk \/ out.res = "Ok")
        /\ paidOut' = paidOut + Total(out.transfers)
        /\ payouts' = payouts + Len(out.transfers)
        /\ UNCHANGED <<owner, lastAccepted, lastBidder, initParam, net>>

\* view and viewHighestBid are neither mutable nor payable: the host hands
\* them the state read-only, so the instance is left as it was.  Neither
\* reads its ctx: the call has no input, and last keeps the sender and the
\* slot time of the latest call that read them.
View ==
    /\ last' = [op |-> "view", sender |-> last.sender, slot_time |-> last.slot_time,
                amount |-> 0, host_ok |-> TRUE, res |-> "Ok",
                transfers |-> <<>>, ret |-> <<view(state)>>,
                pre |-> Pre]
    /\ UNCHANGED <<state, balance, owner, lastAccepted, finalizedOk,
                   lastBidder, initParam, net, paidOut, payouts>>

ViewHighestBid ==
    /\ last' = [op |-> "viewHighestBid", sender |-> last.sender,
                slot_time |-> last.slot_time,
                amount |-> 0, host_ok |-> TRUE, res |-> "Ok",
                transfers |-> <<>>, ret |-> <<view_highest_bid(balance)>>,
                pre |-> Pre]
    /\ UNCHANGED <<state, balance, owner, lastAccepted, finalizedOk,
                   lastBidder, initParam, net, paidOut, payouts>>

BidStep == \E sender \in Addresses, slot_time \in Times, amount \in Amounts, host_ok \in BOOLEAN :
               Bid(sender, slot_time, amount, host_ok)

FinalizeStep == \E sender \in Addresses, slot_time \in Times, host_ok \in BOOLEAN :
                    Finalize(sender, slot_time, host_ok)

Next == BidStep \/ FinalizeStep \/ View \/ ViewHighestBid

Spec == Init /\ [][Next]_vars

\* The same calls under a host clock that never decreases between calls:
\* the slot time a call reads is at least the slot time read before it.
BidStepMono == \E sender \in Addresses, slot_time \in Times, amount \in Amounts,
                  host_ok \in BOOLEAN :
                   slot_time >= last.slot_time /\ Bid(sender, slot_time, amount, host_ok)

FinalizeStepMono == \E sender \in Addresses, slot_time \in Times, host_ok \in BOOLEAN :
                        slot_time >= last.slot_time /\ Finalize(sender, slot_time, host_ok)

NextMono == BidStepMono \/ FinalizeStepMono \/ View \/ ViewHighestBid

SpecMono == Init /\ [][NextMono]_vars

TypeOK ==
    /\ state.auction_state \in {Continue} \cup {Sold(a) : a \in Accounts}
    /\ state.highest_bidder \in {None} \cup {Some(a) : a \in Accounts}
    /\ state.item \in Items
    /\ state.end \in Times
    /\ balance \in Amounts
    /\ owner \in Accounts
    /\ lastAccepted \in Amounts
    /\ finalizedOk \in BOOLEAN
    /\ lastBidder \in {None} \cup {Some(a) : a \in Accounts}
    /\ initParam \in [item : Items, end : Times]
    /\ net \in [Principals -> Amounts]
    /\ paidOut \in Amounts
    /\ payouts \in 0..1

\* ---- properties ---------------------------------------------------------
BidErrors == {"OnlyAccount", "BidMore", "BidTooLate", "AuctionFinalizedButBidded"}
FinalizeErrors == {"AuctionStillActive", "AuctionAlreadyFinalized"}

\* C1: single settlement: once some finalize call has returned Ok, every later
\* finalize call fails with AuctionAlreadyFinalized and schedules no transfer,
\* whether or not a bid had been accepted before.
C1_SingleSettlement ==
    (last.op = "finalize" /\ last.pre.finalizedOk)
        => (last.res = "AuctionAlreadyFinalized" /\ last.transfers = <<>>)

\* C2 (as stated): escrow invariant: between calls the balance equals the
\* amount of the last accepted bid, and is zero when highest_bidder is absent,
\* in every reachable state.
C2_EscrowAlways ==
    /\ balance = lastAccepted
    /\ (state.highest_bidder = None => balance = 0)

\* C2 (amended): while the phase is Open (auction_state = Continue), the
\* balance equals the amount of the last accepted bid, and is zero when
\* highest_bidder is absent.
C2_EscrowWhileOpen ==
    state.auction_state = Continue =>
        /\ balance = lastAccepted
        /\ (state.highest_bidder = None => balance = 0)

C2_Witness ==
    /\ state.auction_state = Continue
    /\ last.op = "bid" /\ last.res = "Ok"
    /\ last.pre.state.highest_bidder # None
    /\ last.transfers # <<>>
    /\ balance = last.amount /\ balance > 1

\* C3: monotonic highest bid: every successful bid carries an amount strictly
\* greater than the last accepted amount; a bid whose amount is less than or
\* equal to the last accepted amount (ties included) never succeeds, leaves
\* the record and the balance unchanged, and is rejected with BidMore when the
\* guards before the amount guard pass.
C3_MonotonicBid ==
    last.op = "bid" =>
        /\ (last.res = "Ok" =>
               /\ last.amount > last.pre.lastAccepted
               /\ lastAccepted = last.amount)
        /\ (last.amount <= last.pre.lastAccepted =>
               /\ last.res # "Ok"
               /\ state = last.pre.state
               /\ balance = last.pre.balance
               /\ last.transfers = <<>>
               /\ (/\ last.pre.state.auction_state = Continue
                   /\ last.slot_time <= last.pre.state.end
                   /\ last.sender[1] = "Account"
                   => last.res = "BidMore"))

C3_Witness ==
    /\ last.op = "bid" /\ last.res = "BidMore"
    /\ last.pre.lastAccepted > 0
    /\ last.amount = last.pre.lastAccepted
    /\ state.highest_bidder # None

\* C4: refund conservation: a successful bid that replaces a previous highest
\* bidder schedules exactly one transfer, to that bidder, of the balance held
\* before the attached amount was added; a successful bid with no previous
\* bidder schedules no transfer.
C4_RefundConservation ==
    (last.op = "bid" /\ last.res = "Ok") =>
        IF last.pre.state.highest_bidder # None
        THEN last.transfers = <<[to |-> last.pre.state.highest_bidder[1],
                                 amount |-> last.pre.balance]>>
        ELSE last.transfers = <<>>

C4_Witness ==
    /\ last.op = "bid" /\ last.res = "Ok"
    /\ last.pre.state.highest_bidder # None
    /\ last.pre.state.highest_bidder # state.highest_bidder
    /\ Len(last.transfers) = 1
    /\ last.transfers[1].amount = last.pre.balance
    /\ last.pre.balance > 0

\* C5: time gating: bid succeeds only at slot_time <= end, finalize only at
\* slot_time > end; at slot_time = end an otherwise valid bid is accepted and
\* finalize on an open auction fails with AuctionStillActive; a bid on an open
\* auction at slot_time > end fails with BidTooLate.
C5_TimeGating ==
    /\ (last.op = "bid" /\ last.res = "Ok") => last.slot_time <= last.pre.state.end
    /\ (last.op = "finalize" /\ last.res = "Ok") => last.slot_time > last.pre.state.end
    /\ (/\ last.op = "bid"
        /\ last.slot_time = last.pre.state.end
        /\ last.pre.state.auction_state = Continue
        /\ last.sender[1] = "Account"
        /\ last.amount > last.pre.balance
        /\ last.host_ok) => last.res = "Ok"
    /\ (/\ last.op = "finalize"
        /\ last.slot_time = last.pre.state.end
        /\ last.pre.state.auction_state = Continue) => last.res = "AuctionStillActive"
    /\ (/\ last.op = "bid"
        /\ last.slot_time > last.pre.state.end
        /\ last.pre.state.auction_state = Continue) => last.res = "BidTooLate"

C5_Witness ==
    /\ last.op = "bid" /\ last.res = "Ok"
    /\ last.slot_time = state.end
    /\ last.pre.state.highest_bidder # None

\* C6: payout correctness: a successful finalize with highest_bidder = Some(w)
\* schedules exactly one transfer, to the owner of the instance, of the whole
\* balance held at that moment, and the phase becomes Sold(w).
C6_PayoutCorrectness ==
    (/\ last.op = "finalize" /\ last.res = "Ok"
     /\ last.pre.state.highest_bidder # None) =>
        /\ last.transfers = <<[to |-> owner, amount |-> last.pre.balance]>>
        /\ state.auction_state = Sold(last.pre.state.highest_bidder[1])
        /\ state.highest_bidder = last.pre.state.highest_bidder

C6_Witness ==
    /\ last.op = "finalize" /\ last.res = "Ok"
    /\ last.pre.state.highest_bidder # None
    /\ last.pre.state.highest_bidder[1] # owner
    /\ last.sender # Account(owner)
    /\ last.sender # Account(last.pre.state.highest_bidder[1])
    /\ Len(last.transfers) = 1
    /\ last.transfers[1].amount > 0

\* the first failing guard of bid in the order phase, sender, time, amount
BidResultSenderBeforeTime(pre, sender, slot_time, amount) ==
    IF pre.state.auction_state # Continue THEN "AuctionFinalizedButBidded"
    ELSE IF sender[1] # "Account" THEN "OnlyAccount"
    ELSE IF slot_time > pre.state.end THEN "BidTooLate"
    ELSE IF amount <= pre.balance THEN "BidMore"
    ELSE "Ok"

\* the first failing guard of bid in the order phase, time, sender, amount
BidResultTimeBeforeSender(pre, sender, slot_time, amount) ==
    IF pre.state.auction_state # Continue THEN "AuctionFinalizedButBidded"
    ELSE IF slot_time > pre.state.end THEN "BidTooLate"
    ELSE IF sender[1] # "Account" THEN "OnlyAccount"
    ELSE IF amount <= pre.balance THEN "BidMore"
    ELSE "Ok"

\* C7 (as stated): guard order of bid: the error of a bid is that of the first
\* failing guard in the order (1) phase, (2) sender is an account, (3) time,
\* (4) amount; a contract bidding on an open auction after the end gets
\* OnlyAccount, not BidTooLate.
C7_GuardOrderSenderBeforeTime ==
    (last.op = "bid" /\ last.res # "Abort") =>
        last.res = BidResultSenderBeforeTime(last.pre, last.sender, last.slot_time, last.amount)

\* C7 (amended): the error of a bid is that of the first failing guard in the
\* order (1) phase, (2) time, (3) sender is an account, (4) amount; a contract
\* bidding on an open auction after the end gets BidTooLate, not OnlyAccount.
C7_GuardOrderTimeBeforeSender ==
    /\ (last.op = "bid" /\ last.res # "Abort") =>
           last.res = BidResultTimeBeforeSender(last.pre, last.sender, last.slot_time, last.amount)
    /\ (/\ last.op = "bid"
        /\ last.sender[1] = "Contract"
        /\ last.pre.state.auction_state = Continue
        /\ last.slot_time > last.pre.state.end) => last.res = "BidTooLate"

C7_Witness ==
    /\ last.op = "bid"
    /\ last.sender[1] = "Contract"
    /\ last.pre.state.auction_state = Continue
    /\ last.slot_time > last.pre.state.end
    /\ last.res = "BidTooLate"

\* C8: state unchanged on error: a bid or finalize call that returns one of
\* its errors leaves auction_state, highest_bidder, item, end and the balance
\* as they were before the call and schedules no transfer.
C8_UnchangedOnError ==
    (/\ last.op \in {"bid", "finalize"}
     /\ last.res \in BidErrors \cup FinalizeErrors) =>
        /\ state = last.pre.state
        /\ balance = last.pre.balance
        /\ last.transfers = <<>>

C8_Witness ==
    /\ last.op = "bid" /\ last.res = "BidMore"
    /\ last.amount > 0
    /\ state.highest_bidder # None
    /\ balance = last.pre.balance /\ balance > 0

\* C9: transfer-failure atomicity: when the refund of bid or the payout of
\* finalize fails, the call aborts and nothing of it is kept: highest_bidder
\* is the one before the call, the phase is not Sold, the balance is the one
\* before the call and no transfer is scheduled.
C9_TransferFailureAtomic ==
    (last.op \in {"bid", "finalize"} /\ ~last.host_ok
     /\ last.res \notin BidErrors \cup FinalizeErrors
     /\ last.pre.state.highest_bidder # None) =>
        /\ last.res = "Abort"
        /\ state = last.pre.state
        /\ state.auction_state = Continue
        /\ balance = last.pre.balance
        /\ last.transfers = <<>>

C9_Witness ==
    /\ last.op = "bid" /\ last.res = "Abort"
    /\ last.sender # Account(state.highest_bidder[1])
    /\ last.amount > balance

\* C10: Settled is terminal: a call that arrives in phase Sold(w) leaves the
\* phase Sold(w) and highest_bidder unchanged; every bid in that phase fails
\* with AuctionFinalizedButBidded whatever its sender, time and amount;
\* highest_bidder changes only in phase Continue and only by a successful bid.
C10_SettledTerminal ==
    /\ last.pre.state.auction_state # Continue =>
           /\ state.auction_state = last.pre.state.auction_state
           /\ state.highest_bidder = last.pre.state.highest_bidder
           /\ (last.op = "bid" => last.res = "AuctionFinalizedButBidded")
    /\ state.highest_bidder # last.pre.state.highest_bidder =>
           /\ last.pre.state.auction_state = Continue
           /\ last.op = "bid" /\ last.res = "Ok"

C10_Witness ==
    /\ last.op = "bid"
    /\ last.pre.state.auction_state # Continue
    /\ last.res = "AuctionFinalizedButBidded"
    /\ last.sender[1] = "Account"
    /\ last.amount > last.pre.lastAccepted

\* C11: winner consistency: in every state with phase Sold(w), highest_bidder
\* is Some(w) and w is the sender of the last successful bid; the phase is
\* never Sold while highest_bidder is absent.
C11_WinnerConsistency ==
    state.auction_state # Continue =>
        /\ state.highest_bidder # None
        /\ state.auction_state = Sold(state.highest_bidder[1])
        /\ lastBidder = state.highest_bidder

C11_Witness ==
    /\ state.auction_state # Continue
    /\ last.op = "finalize" /\ last.res = "Ok"
    /\ state.auction_state[2] # owner
    /\ lastBidder = Some(state.auction_state[2])

\* C12: finalize is open to any caller: the same finalize call (same state,
\* balance, slot time and host) made by any other sender gives the same
\* result, the same record and balance and the same transfers; the transfer,
\* if any, goes to the owner for the whole balance.
C12_FinalizeAnyCaller ==
    last.op = "finalize" =>
        /\ \A other \in Addresses :
              LET out == receive_outcome(last.pre.state, last.pre.balance,
                             auction_finalize(last.pre.state, owner, other, last.slot_time,
                                              last.pre.balance, last.host_ok))
              IN  /\ out.res = last.res
                  /\ out.state = state
                  /\ out.balance = balance
                  /\ out.transfers = last.transfers
        /\ \A i \in 1..Len(last.transfers) :
              last.transfers[i] = [to |-> owner, amount |-> last.pre.balance]

C12_Witness ==
    /\ last.op = "finalize" /\ last.res = "Ok"
    /\ last.sender[1] = "Contract"
    /\ Len(last.transfers) = 1
    /\ last.transfers[1].to = owner
    /\ last.transfers[1].amount > 0

\* C13: initialization: for every item and every end, auction_init succeeds
\* and yields auction_state = Continue, highest_bidder = None, item and end
\* equal to the parameters, and schedules no transfer.
C13_Initialization ==
    last.op = "init" =>
        /\ last.res = "Ok"
        /\ state = [auction_state |-> Continue, highest_bidder |-> None,
                    item |-> initParam.item, end |-> initParam.end]
        /\ last.transfers = <<>>

C13_Witness ==
    /\ last.op = "init"
    /\ initParam.end = MaxTime
    /\ state.end = MaxTime
    /\ state.auction_state = Continue

\* C14: read-only projections: view and viewHighestBid succeed, leave the
\* record and the balance unchanged and schedule no transfer; view returns
\* the current record and viewHighestBid the current balance.
C14_ReadOnlyViews ==
    last.op \in {"view", "viewHighestBid"} =>
        /\ last.res = "Ok"
        /\ state = last.pre.state
        /\ balance = last.pre.balance
        /\ last.transfers = <<>>
        /\ Len(last.ret) = 1
        /\ (last.op = "view" => last.ret[1] = state)
        /\ (last.op = "viewHighestBid" => last.ret[1] = balance)

C14_Witness ==
    /\ last.op = "viewHighestBid"
    /\ balance > 0
    /\ state.highest_bidder # None
    /\ last.ret = <<balance>>

C16_OnlyAccountsBid ==
    /\ (/\ last.op = "bid"
        /\ last.sender[1] = "Contract"
        /\ last.pre.state.auction_state = Continue
        /\ last.slot_time <= last.pre.state.end) =>
           /\ last.res = "OnlyAccount"
           /\ state = last.pre.state
           /\ balance = last.pre.balance
           /\ last.transfers = <<>>
    /\ (state.highest_bidder # None => state.highest_bidder[1] \in Accounts)
    /\ (state.auction_state # Continue => state.auction_state[2] \in Accounts)
    /\ (last.op = "bid" =>
           \A i \in 1..Len(last.transfers) : last.transfers[i].to \in Accounts)

C16_Witness ==
    /\ last.op = "bid" /\ last.res = "OnlyAccount"
    /\ last.sender[1] = "Contract"
    /\ last.amount > last.pre.balance
    /\ state.highest_bidder # None

\* C17: immutable auction parameters: after auction_init no call changes item
\* or end: they are those of the InitParameter in every state.
C17_ImmutableParameters ==
    /\ state.item = initParam.item
    /\ state.end = initParam.end
    /\ state.item = last.pre.state.item
    /\ state.end = last.pre.state.end

C17_Witness ==
    /\ last.op = "finalize" /\ last.res = "Ok"
    /\ state.auction_state # Continue
    /\ state.end = initParam.end
    /\ payouts = 1

RECURSIVE SumOver(_, _)
SumOver(f, S) ==
    IF S = {} THEN 0
    ELSE LET x == CHOOSE y \in S : TRUE
         IN  f[x] + SumOver(f, S \ {x})

\* C18: funds conservation: the accepted bids minus the refunds, summed over
\* all bidders, equal the balance plus the payout; while the phase is
\* Continue, every principal other than the highest bidder has been refunded
\* all its accepted bids, and the accepted bids of the highest bidder minus
\* its refunds equal the current highest bid (also when it outbids itself).
C18_FundsConservation ==
    /\ SumOver(net, Principals) = balance + paidOut
    /\ state.auction_state = Continue =>
           \A p \in Principals :
               net[p] = IF state.highest_bidder = Some(p) THEN lastAccepted ELSE 0

C18_Witness ==
    /\ last.op = "bid" /\ last.res = "Ok"
    /\ last.pre.state.highest_bidder = Some(last.sender[2])
    /\ Len(last.transfers) = 1
    /\ last.transfers[1].to = last.sender[2]
    /\ net[last.sender[2]] = last.amount

\* C19: no bid after a successful finalize (clock that never decreases): once
\* a finalize call has returned Ok, with or without a highest bidder, no later
\* bid succeeds and highest_bidder does not change.
C19_NoBidAfterFinalize ==
    last.pre.finalizedOk =>
        /\ ~(last.op = "bid" /\ last.res = "Ok")
        /\ state.highest_bidder = last.pre.state.highest_bidder

C19_Witness ==
    /\ last.op = "bid"
    /\ last.pre.finalizedOk
    /\ last.pre.state.auction_state = Continue
    /\ last.sender[1] = "Account"
    /\ last.amount > last.pre.balance
    /\ last.res = "BidTooLate"

\* C20: one payout and empty escrow after settlement: finalize schedules at
\* most one transfer over the whole history, it goes to the owner in the step
\* in which the phase becomes Sold, and in phase Sold the balance is zero.
C20_OnePayoutEmptyEscrow ==
    /\ payouts <= 1
    /\ (last.op = "finalize" /\ last.transfers # <<>>) =>
           /\ Len(last.transfers) = 1
           /\ last.transfers[1].to = owner
           /\ last.pre.state.auction_state = Continue
           /\ state.auction_state # Continue
    /\ (last.pre.state.auction_state = Continue /\ state.auction_state # Continue) =>
           /\ last.op = "finalize"
           /\ Len(last.transfers) = 1
    /\ state.auction_state # Continue => (balance = 0 /\ payouts = 1)

C20_Witness ==
    /\ state.auction_state # Continue
    /\ last.op = "finalize" /\ last.res = "AuctionAlreadyFinalized"
    /\ last.slot_time > state.end
    /\ payouts = 1 /\ paidOut > 0
    /\ balance = 0

====
